---------------------------- MODULE Spec2Model ----------------------------
(***************************************************************************)
(* Model of streamlit_app.py: the tiered pricing and quoting tool.         *)
(*                                                                         *)
(* Numbers.  A Python float is modelled as an exact rational <<n, d>> with *)
(* d > 0 and gcd(n, d) = 1; numpy's nan (and the None the result tables    *)
(* show for it) is the pair NaN.  Binary rounding error of floats is not   *)
(* modelled; the decimal rounding the code asks for (round(x, 4),          *)
(* round(x, 2)) is.                                                        *)
(*                                                                         *)
(* Strings.  A Python str is a sequence of one-character strings.          *)
(***************************************************************************)
EXTENDS Integers, Sequences, FiniteSets, TLC

VARIABLES
    args,            \* arguments of the helper call under study
    ret,             \* its return value ("pending" before the call)
    pc,              \* position of the script run
    order_df,        \* the order lines of the data editor
    cfg,             \* sidebar inputs: factory_discount, fixed_cost_total, tiers, target margin
    i,               \* loop index of the running loop
    product_col,     \* script-level name product_col ("unbound" until first assigned)
    total_qty,       \* script-level total_qty
    calc_rows,       \* calc_rows / calc_df
    show_tiers,      \* rows of the tier preview
    order_rows,      \* order_rows / order_df_priced
    total_target,    \* total_target
    out              \* what the run showed: warning, export, counts of calls and divisions

vars == <<args, ret, pc, order_df, cfg, i, product_col, total_qty, calc_rows,
          show_tiers, order_rows, total_target, out>>

-----------------------------------------------------------------------------
(* Rational arithmetic *)

NaN == <<0, 0>>

isnan(x) == x[2] = 0

Abs(n) == IF n < 0 THEN -n ELSE n

RECURSIVE GCD(_, _)
GCD(a, b) == IF b = 0 THEN a ELSE GCD(b, a % b)

Norm(n, d) ==
    LET g == GCD(Abs(n), Abs(d))
        s == IF d < 0 THEN -1 ELSE 1
    IN  <<(s * n) \div g, (s * d) \div g>>

R(n) == <<n, 1>>

Frac(n, d) == Norm(n, d)

\* the numerators of x and y over their least common denominator
Over(x, y) ==
    LET g == GCD(x[2], y[2])
    IN  <<x[1] * (y[2] \div g), y[1] * (x[2] \div g), (x[2] \div g) * y[2]>>

RAdd(x, y) == IF isnan(x) \/ isnan(y) THEN NaN
              ELSE Norm(Over(x, y)[1] + Over(x, y)[2], Over(x, y)[3])

RSub(x, y) == IF isnan(x) \/ isnan(y) THEN NaN
              ELSE Norm(Over(x, y)[1] - Over(x, y)[2], Over(x, y)[3])

RMul(x, y) ==
    IF isnan(x) \/ isnan(y) THEN NaN
    ELSE LET g1 == GCD(Abs(x[1]), y[2])
             g2 == GCD(Abs(y[1]), x[2])
         IN  Norm((x[1] \div g1) * (y[1] \div g2), (x[2] \div g2) * (y[2] \div g1))

\* x / y for y # 0 (every division of the script has a divisor that is not 0)
RDiv(x, y) == IF isnan(x) \/ isnan(y) THEN NaN
              ELSE IF y[1] < 0 THEN RMul(x, <<-y[2], -y[1]>>)
              ELSE RMul(x, <<y[2], y[1]>>)

RLe(x, y) == ~isnan(x) /\ ~isnan(y) /\ Over(x, y)[1] <= Over(x, y)[2]

RMax(x, y) == IF RLe(y, x) THEN x ELSE y

\* round(x, k) with p = 10^k: to the nearest multiple of 1/p, ties to even
Round(x, p) ==
    IF isnan(x) THEN NaN
    ELSE LET ip == x[1] \div x[2]              \* floor of x
             s  == (x[1] - ip * x[2]) * p      \* fraction of x, scaled by p
             q  == s \div x[2]
             r  == s - q * x[2]
             up == \/ 2 * r > x[2]
                   \/ 2 * r = x[2] /\ q % 2 = 1
         IN  Norm(ip * p + (IF up THEN q + 1 ELSE q), p)

\* int(x): truncation toward zero
int(x) == IF x[1] >= 0 THEN x[1] \div x[2] ELSE -((-x[1]) \div x[2])

-----------------------------------------------------------------------------
(* Strings *)

Whitespace == {" ", "\t"}

Digits == {"0", "1", "2", "3", "4", "5", "6", "7", "8", "9"}

RECURSIVE lstrip(_)
lstrip(s) == IF s # <<>> /\ Head(s) \in Whitespace THEN lstrip(Tail(s)) ELSE s

RECURSIVE rstrip(_)
rstrip(s) == IF s # <<>> /\ s[Len(s)] \in Whitespace
             THEN rstrip(SubSeq(s, 1, Len(s) - 1)) ELSE s

\* str.strip(): removes leading and trailing whitespace of every kind
strip(s) == rstrip(lstrip(s))

\* str.replace(ch, ''): removes every occurrence of the one character ch
RECURSIVE remove(_, _)
remove(s, ch) == IF s = <<>> THEN <<>>
                 ELSE IF Head(s) = ch THEN remove(Tail(s), ch)
                 ELSE <<Head(s)>> \o remove(Tail(s), ch)

\* all strings over alphabet A of length at most n
RECURSIVE StrUpTo(_, _)
StrUpTo(A, n) == IF n = 0 THEN {<<>>}
                 ELSE LET S == StrUpTo(A, n - 1)
                      IN  S \cup {Append(s, c) : s \in {t \in S : Len(t) = n - 1}, c \in A}

-----------------------------------------------------------------------------
(* Helpers of the script *)

\* the outcome "float(s) raised ValueError"
ValueError == <<0, -1>>

DigitVal(c) == CASE c = "0" -> 0 [] c = "1" -> 1 [] c = "2" -> 2 [] c = "3" -> 3
                 [] c = "4" -> 4 [] c = "5" -> 5 [] c = "6" -> 6 [] c = "7" -> 7
                 [] c = "8" -> 8 [] c = "9" -> 9

RECURSIVE ToInt(_)
ToInt(ds) == IF ds = <<>> THEN 0
             ELSE 10 * ToInt(SubSeq(ds, 1, Len(ds) - 1)) + DigitVal(ds[Len(ds)])

RECURSIVE Pow10(_)
Pow10(k) == IF k = 0 THEN 1 ELSE 10 * Pow10(k - 1)

\* float(s) for a string s of digits, '.' and '-': an optional leading '-', then
\* digits with at most one '.', at least one digit; anything else raises ValueError
float(s) ==
    LET neg  == s # <<>> /\ Head(s) = "-"
        body == IF neg THEN Tail(s) ELSE s
        dots == {k \in 1..Len(body) : body[k] = "."}
        ds   == remove(body, ".")
        ok   == /\ ds # <<>>
                /\ \A k \in 1..Len(ds) : ds[k] \in Digits
                /\ Cardinality(dots) <= 1
        frac == IF dots = {} THEN 0 ELSE Len(body) - (CHOOSE k \in dots : TRUE)
        v    == Norm(ToInt(ds), Pow10(frac))
    IN  IF ~ok THEN ValueError
        ELSE IF neg THEN <<-v[1], v[2]>> ELSE v

KeepNumeric(ch) == ch \in Digits \/ ch \in {".", "-"}

\* lines 19-21: strip, drop commas, keep only digits, '.' and '-'
NumericChars(x) == SelectSeq(remove(strip(x), ","), KeepNumeric)

\* coerce_numeric with the try/except left out: float's ValueError escapes
coerce_numeric_no_except(x) ==
    LET s == NumericChars(x)
    IN  IF s = <<>> \/ s = <<"-">> \/ s = <<".">> THEN NaN ELSE float(s)

coerce_numeric(x) ==
    LET s == NumericChars(x)
    IN  IF s = <<>> \/ s = <<"-">> \/ s = <<".">> THEN NaN
        ELSE IF float(s) = ValueError THEN NaN    \* except Exception: return np.nan
        ELSE float(s)

Min(S) == CHOOSE k \in S : \A j \in S : k <= j

\* c in df.columns
InColumns(c, df) == \E k \in 1..Len(df.columns) : df.columns[k] = c

\* rows of df whose MODEL equals model_code after str.strip() on both sides
ExactRows(df, model_code) ==
    {k \in 1..Len(df.rows) : strip(df.rows[k]["MODEL"]) = strip(model_code)}

\* rows of df whose MODEL equals model_code after .replace(" ", "") on both sides
FallbackRows(df, model_code) ==
    {k \in 1..Len(df.rows) : remove(df.rows[k]["MODEL"], " ") = remove(model_code, " ")}

\* the row selection without the fallback of lines 88-91
MatchRows_exact_only(df, model_code) == ExactRows(df, model_code)

\* the row selection of get_price: df.loc[exact], and df.loc[fallback] if that is empty
MatchRows(df, model_code) ==
    IF ExactRows(df, model_code) # {} THEN ExactRows(df, model_code)
    ELSE FallbackRows(df, model_code)

\* get_price that tries the space-stripped match first
get_price_fallback_first(sheets, sheet_name, pcol, model_code) ==
    LET df  == sheets[sheet_name]
        row == IF FallbackRows(df, model_code) # {} THEN FallbackRows(df, model_code)
               ELSE ExactRows(df, model_code)
    IN  IF row = {} THEN NaN
        ELSE IF ~InColumns(pcol, df) THEN NaN
        ELSE df.rows[Min(row)][pcol]

\* get_price without the check that the column exists: the row lookup raises KeyError
KeyError == <<0, -2>>

get_price_no_column_check(sheets, sheet_name, pcol, model_code) ==
    LET df  == sheets[sheet_name]
        row == MatchRows(df, model_code)
    IN  IF row = {} THEN NaN
        ELSE IF ~InColumns(pcol, df) THEN KeyError
        ELSE df.rows[Min(row)][pcol]

get_price(sheets, sheet_name, pcol, model_code) ==
    LET df  == sheets[sheet_name]
        row == MatchRows(df, model_code)
    IN  IF row = {} THEN NaN
        ELSE IF ~InColumns(pcol, df) THEN NaN
        ELSE df.rows[Min(row)][pcol]               \* row.iloc[0][product_col]

ZeroDivisionError == <<0, -3>>

\* price_with_margin dividing by qty itself
price_with_margin_no_floor(unit_cost, fixed_cost_per_order, qty, margin_pct, margin_mode) ==
    IF qty = R(0) THEN <<ZeroDivisionError, ZeroDivisionError>>
    ELSE LET unit_allin_cost == RAdd(unit_cost, RDiv(fixed_cost_per_order, qty))
             m == RDiv(margin_pct, R(100))
         IN  IF margin_mode = "Markup on cost"
             THEN <<RMul(unit_allin_cost, RAdd(R(1), m)), unit_allin_cost>>
             ELSE IF RLe(RSub(R(1), m), R(0)) THEN <<NaN, unit_allin_cost>>
             ELSE <<RDiv(unit_allin_cost, RSub(R(1), m)), unit_allin_cost>>

\* price_with_margin whose revenue-margin branch marks the cost up instead
price_with_margin_markup_only(unit_cost, fixed_cost_per_order, qty, margin_pct, margin_mode) ==
    LET unit_allin_cost == RAdd(unit_cost, RDiv(fixed_cost_per_order, RMax(qty, R(1))))
        m == RDiv(margin_pct, R(100))
    IN  IF RLe(RSub(R(1), m), R(0)) /\ margin_mode # "Markup on cost"
        THEN <<NaN, unit_allin_cost>>
        ELSE <<RMul(unit_allin_cost, RAdd(R(1), m)), unit_allin_cost>>

price_with_margin(unit_cost, fixed_cost_per_order, qty, margin_pct, margin_mode) ==
    LET unit_allin_cost == RAdd(unit_cost, RDiv(fixed_cost_per_order, RMax(qty, R(1))))
        m == RDiv(margin_pct, R(100))
    IN  IF margin_mode = "Markup on cost"
        THEN <<RMul(unit_allin_cost, RAdd(R(1), m)), unit_allin_cost>>
        ELSE IF RLe(RSub(R(1), m), R(0))
             THEN <<NaN, unit_allin_cost>>
             ELSE <<RDiv(unit_allin_cost, RSub(R(1), m)), unit_allin_cost>>

-----------------------------------------------------------------------------
(* Bounds and input sets *)

MaxQty == 3         \* quantities passed to price_with_margin: -1 .. MaxQty
MaxStrLen == 4      \* length of the strings given to coerce_numeric
MaxKeyLen == 3      \* length of sheet keys and lookup keys given to get_price
MaxRows == 2        \* rows of the sheet given to get_price

CoerceChars == {"1", "5", ",", ".", "-", "R", " "}

KeyChars == {"A", " ", "\t"}

\* the script variables while no script run is modelled
Idle ==
    /\ order_df = <<>> /\ cfg = <<>> /\ i = 0 /\ product_col = "unbound"
    /\ total_qty = R(0) /\ calc_rows = <<>> /\ show_tiers = <<>>
    /\ order_rows = <<>> /\ total_target = R(0) /\ out = <<>>

IdleUnchanged == UNCHANGED <<order_df, cfg, i, product_col, total_qty, calc_rows,
                             show_tiers, order_rows, total_target, out>>

-----------------------------------------------------------------------------
(* price_with_margin on its own *)

InitPrice ==
    /\ pc = "call"
    /\ ret = <<NaN, NaN>>
    /\ \E uc \in {R(0), R(50), Frac(1, 3)}, fc \in {R(0), R(7), R(700)},
          q \in -1..MaxQty,
          mp \in {R(0), R(25), R(50), R(99), Frac(199, 2), R(100), R(150)},
          mode \in {"Revenue margin", "Markup on cost"} :
          args = [unit_cost |-> uc, fixed_cost_per_order |-> fc, qty |-> R(q),
                  margin_pct |-> mp, margin_mode |-> mode]
    /\ Idle

Call_price_with_margin ==
    /\ pc = "call"
    /\ ret' = price_with_margin(args.unit_cost, args.fixed_cost_per_order, args.qty,
                                args.margin_pct, args.margin_mode)
    /\ pc' = "returned"
    /\ UNCHANGED args
    /\ IdleUnchanged

SpecPrice == InitPrice /\ [][Call_price_with_margin]_vars

(* coerce_numeric on its own *)

InitCoerce ==
    /\ pc = "call"
    /\ ret = NaN
    /\ args \in StrUpTo(CoerceChars, MaxStrLen)
    /\ Idle

Call_coerce_numeric ==
    /\ pc = "call"
    /\ ret' = coerce_numeric(args)
    /\ pc' = "returned"
    /\ UNCHANGED args
    /\ IdleUnchanged

SpecCoerce == InitCoerce /\ [][Call_coerce_numeric]_vars

(* get_price on its own, on a sheet as tidy_sheet leaves it *)

\* tidy_sheet, line 65: the MODEL column holds trimmed strings
TidyKeys == {strip(s) : s \in StrUpTo(KeyChars, MaxKeyLen)}

\* a tidied sheet with the value column "P"; row k holds the price 10 * k
TidySheets ==
    UNION {[rows : {[k \in 1..n |->
                       [r \in {"MODEL", "P"} |->
                           IF r = "MODEL" THEN keys[k] ELSE R(10 * k)]]
                     : keys \in [1..n -> TidyKeys]},
            columns : {<<"MODEL", "P">>}]
           : n \in 1..MaxRows}

InitLookup ==
    /\ pc = "call"
    /\ ret = NaN
    /\ \E df \in TidySheets, col \in {"P", "Z", "None"},
          code \in StrUpTo(KeyChars, MaxKeyLen) :
          args = [sheets_dict |-> [s \in {"S1"} |-> df], sheet_name |-> "S1",
                  product_col |-> col, model_code |-> code]
    /\ Idle

Call_get_price ==
    /\ pc = "call"
    /\ ret' = get_price(args.sheets_dict, args.sheet_name, args.product_col,
                        args.model_code)
    /\ pc' = "returned"
    /\ UNCHANGED args
    /\ IdleUnchanged

SpecLookup == InitLookup /\ [][Call_get_price]_vars

-----------------------------------------------------------------------------
(* The script run: lines 197-319, one run per change of the inputs *)

MaxLines == 2       \* order lines in the data editor

\* the loaded workbook: one tidied sheet with the value columns P and Q
sheets_dict ==
    [s \in {"S1"} |->
        [columns |-> <<"MODEL", "P", "Q">>,
         rows |-> << [c \in {"MODEL", "P", "Q"} |->
                        CASE c = "MODEL" -> <<"4", "-", "0", "1">>
                          [] c = "P" -> R(100) [] c = "Q" -> R(80)],
                     [c \in {"MODEL", "P", "Q"} |->
                        CASE c = "MODEL" -> <<"B", "L">>
                          [] c = "P" -> R(60) [] c = "Q" -> R(40)] >>]]

\* what the user can type into one line of the order editor, quantity aside
LineChoices ==
    { [sheet |-> "S1", product_col |-> "P", model |-> <<"4", "-", "0", "1">>],
      [sheet |-> "S1", product_col |-> "Q", model |-> <<"4", "-", " ", "0", "1">>],
      [sheet |-> "S1", product_col |-> "zz", model |-> <<"B", "L">>],
      [sheet |-> "S1", product_col |-> "P", model |-> <<"X", "9">>],
      [sheet |-> "nosuch", product_col |-> "P", model |-> <<"4", "-", "0", "1">>] }

QtyChoices == {-1, 0, 1, 1000}

OrderLines ==
    {[sheet |-> c.sheet, product_col |-> c.product_col, model |-> c.model, qty |-> R(q)]
        : c \in LineChoices, q \in QtyChoices}

\* tier tables as typed into the sidebar editor (any row order)
TierTables ==
    { << [min_qty |-> 100, margin_mode |-> "Revenue margin", margin_pct |-> R(30)],
         [min_qty |-> 1, margin_mode |-> "Markup on cost", margin_pct |-> R(35)] >>,
      << [min_qty |-> 0, margin_mode |-> "Revenue margin", margin_pct |-> R(100)] >> }

\* tiers.sort_values("min_qty"): insertion of each row after the rows not above it
RECURSIVE sort_values(_)
sort_values(ts) ==
    IF ts = <<>> THEN <<>>
    ELSE LET rest == sort_values(Tail(ts))
             low  == SelectSeq(rest, LAMBDA x : x.min_qty < Head(ts).min_qty)
             high == SelectSeq(rest, LAMBDA x : x.min_qty >= Head(ts).min_qty)
         IN  low \o <<Head(ts)>> \o high

\* x or 0: Python takes 0 for a falsy x; nan is truthy and stays nan
Or0(x) == IF x = R(0) THEN R(0) ELSE x

\* x or 0 as if nan were falsy
cost_unit_nan_as_zero(base_price, factory_discount) ==
    RMul(IF isnan(base_price) THEN R(0) ELSE base_price, factory_discount)

\* line 217
cost_unit(base_price, factory_discount) == RMul(Or0(base_price), factory_discount)

\* lines 211-213: the column asked for, else the first value column, else None
ResolveColumn(df, pcol) ==
    IF InColumns(pcol, df) THEN pcol
    ELSE LET value_cols == SelectSeq(df.columns, LAMBDA c : c # "MODEL")
         IN  IF value_cols # <<>> THEN value_cols[1] ELSE "None"

\* lines 203-214: product_col after the row r, given its binding before the row
ProductColAfter(r, before) ==
    IF r.sheet \notin DOMAIN sheets_dict THEN before
    ELSE ResolveColumn(sheets_dict[r.sheet], r.product_col)

\* lines 203-214: base_price of the row r
BasePrice(r) ==
    IF r.sheet \notin DOMAIN sheets_dict THEN NaN
    ELSE get_price(sheets_dict, r.sheet,
                   ResolveColumn(sheets_dict[r.sheet], r.product_col), r.model)

\* lines 218-226: the row appended to calc_rows
CalcRow(r, idx, pcol, factory_discount) ==
    [line |-> idx, sheet |-> r.sheet, product_col |-> pcol, model |-> r.model,
     face |-> BasePrice(r), cost_unit |-> cost_unit(BasePrice(r), factory_discount),
     qty |-> r.qty, alloc_per_unit |-> NaN, breakeven |-> NaN]

\* line 240: fixed_cost_total / total_qty
alloc_per_unit(fixed_cost_total, total) == RDiv(fixed_cost_total, total)

\* lines 240-241: the two columns added to a row of calc_df
WithBreakeven(row, alloc) ==
    [row EXCEPT !.alloc_per_unit = alloc,
                !.breakeven = Round(RAdd(row.cost_unit, alloc), 10000)]

\* lines 257, 288 with the whole pool charged to the line
line_share_whole_pool(fixed_cost_total, qty, total) == fixed_cost_total

\* lines 257, 288: fixed_cost_total * (qty / max(total_qty, 1.0))
line_share(fixed_cost_total, qty, total) ==
    RMul(fixed_cost_total, RDiv(qty, RMax(total, R(1))))

IntMax(a, b) == IF a >= b THEN a ELSE b

\* lines 251-271: the preview row of one calc_df row r under one tier tr
TierRow(r, tr, c, total) ==
    LET share == line_share(c.fixed_cost_total, r.qty, total)
        q     == IntMax(tr.min_qty, 1)
        pm    == price_with_margin(r.cost_unit, share, R(q), tr.margin_pct, tr.margin_mode)
    IN  [line |-> r.line, model |-> r.model, product_col |-> r.product_col,
         min_qty |-> tr.min_qty, margin_mode |-> tr.margin_mode,
         margin_pct |-> tr.margin_pct,
         price |-> Round(pm[1], 10000), breakeven |-> Round(pm[2], 10000),
         share |-> share, divisor |-> q]

\* line 300: None if the price is nan, else round(unit_price * qty, 2)
subtotal(unit_price, qty) ==
    IF isnan(unit_price) THEN NaN ELSE Round(RMul(unit_price, qty), 100)

\* lines 286-301: the order summary row of one calc_df row r
SummaryRow(r, c, total) ==
    LET share == line_share(c.fixed_cost_total, r.qty, total)
        q     == IntMax(int(r.qty), 1)
        pm    == price_with_margin(r.cost_unit, share, R(q), c.target_margin_pct,
                                   c.target_margin_mode)
    IN  [line |-> r.line, model |-> r.model, product_col |-> r.product_col,
         qty |-> int(r.qty),
         breakeven |-> Round(pm[2], 10000), price |-> Round(pm[1], 10000),
         subtotal |-> subtotal(pm[1], r.qty),
         share |-> share, divisor |-> q]

\* line 304: the sum of the subtotals, a missing one replaced by 0
RECURSIVE SumSubtotals(_)
SumSubtotals(rows) ==
    IF rows = <<>> THEN R(0)
    ELSE RAdd(IF isnan(Head(rows).subtotal) THEN R(0) ELSE Head(rows).subtotal,
              SumSubtotals(Tail(rows)))

Orders == UNION {[1..n -> OrderLines] : n \in 0..MaxLines}

Init ==
    /\ pc = "start"
    /\ args = <<>> /\ ret = NaN
    /\ order_df \in Orders
    /\ \E fc \in {R(0), R(700)}, tt \in TierTables,
          mode \in {"Revenue margin", "Markup on cost"} :
          cfg = [factory_discount |-> Frac(1, 2), fixed_cost_total |-> fc,
                 tiers |-> sort_values(tt),
                 target_margin_mode |-> mode, target_margin_pct |-> R(25)]
    /\ i = 0 /\ product_col = "unbound" /\ total_qty = R(0)
    /\ calc_rows = <<>> /\ show_tiers = <<>> /\ order_rows = <<>>
    /\ total_target = R(0)
    /\ out = [warning |-> FALSE, exported |-> FALSE, tables |-> {},
              pwm_calls |-> 0, divisions |-> 0]

\* lines 197-201: an empty editor stops the run; else the loop starts
Start ==
    /\ pc = "start"
    /\ IF order_df = <<>>
       THEN pc' = "stopped_empty" /\ UNCHANGED i
       ELSE pc' = "calc" /\ i' = 1
    /\ UNCHANGED <<args, ret, order_df, cfg, product_col, total_qty, calc_rows,
                   show_tiers, order_rows, total_target, out>>

\* lines 202-226: one iteration of the loop over the order lines.  The name
\* product_col is bound only on the branch of a loaded sheet: the dict of line
\* 218 reads it, and raises NameError while it is unbound
CalcLine ==
    /\ pc = "calc"
    /\ LET r    == order_df[i]
           pcol == ProductColAfter(r, product_col)
       IN  /\ product_col' = pcol
           /\ total_qty' = RAdd(total_qty, r.qty)
           /\ IF pcol = "unbound"
              THEN pc' = "crashed" /\ UNCHANGED <<calc_rows, i>>
              ELSE /\ calc_rows' = Append(calc_rows, CalcRow(r, i, pcol, cfg.factory_discount))
                   /\ IF i = Len(order_df)
                      THEN pc' = "guard" /\ i' = 0
                      ELSE pc' = "calc" /\ i' = i + 1
    /\ UNCHANGED <<args, ret, order_df, cfg, show_tiers, order_rows, total_target, out>>

\* lines 228-237: the cost table is shown; a total quantity <= 0 warns and stops
Guard ==
    /\ pc = "guard"
    /\ IF RLe(total_qty, R(0))
       THEN pc' = "stopped" /\ out' = [out EXCEPT !.warning = TRUE,
                                                  !.tables = @ \cup {"cost"}]
       ELSE pc' = "breakeven" /\ out' = [out EXCEPT !.tables = @ \cup {"cost"}]
    /\ UNCHANGED <<args, ret, order_df, cfg, i, product_col, total_qty, calc_rows,
                   show_tiers, order_rows, total_target>>

\* lines 239-243: the allocation per unit and the breakeven column
Breakeven ==
    /\ pc = "breakeven"
    /\ LET alloc == alloc_per_unit(cfg.fixed_cost_total, total_qty)
       IN  calc_rows' = [k \in 1..Len(calc_rows) |-> WithBreakeven(calc_rows[k], alloc)]
    /\ out' = [out EXCEPT !.divisions = @ + 1, !.tables = @ \cup {"breakeven"}]
    /\ pc' = "tiers" /\ i' = 1
    /\ UNCHANGED <<args, ret, order_df, cfg, product_col, total_qty, show_tiers,
                   order_rows, total_target>>

\* lines 248-273: the preview rows of one line, one per tier
TierLine ==
    /\ pc = "tiers"
    /\ show_tiers' = show_tiers \o
          [k \in 1..Len(cfg.tiers) |->
              TierRow(calc_rows[i], cfg.tiers[k], cfg, total_qty)]
    /\ out' = [out EXCEPT !.pwm_calls = @ + Len(cfg.tiers),
                          !.divisions = @ + Len(cfg.tiers)]
    /\ IF i = Len(calc_rows)
       THEN pc' = "summary" /\ i' = 1
       ELSE pc' = "tiers" /\ i' = i + 1
    /\ UNCHANGED <<args, ret, order_df, cfg, product_col, total_qty, calc_rows,
                   order_rows, total_target>>

\* lines 285-301: the order summary row of one line
SummaryLine ==
    /\ pc = "summary"
    /\ order_rows' = Append(order_rows,
                            SummaryRow(calc_rows[i], cfg, total_qty))
    /\ out' = [out EXCEPT !.pwm_calls = @ + 1, !.divisions = @ + 1,
                          !.tables = IF i = 1 THEN @ \cup {"tiers"} ELSE @]
    /\ IF i = Len(calc_rows)
       THEN pc' = "total" /\ i' = 0
       ELSE pc' = "summary" /\ i' = i + 1
    /\ UNCHANGED <<args, ret, order_df, cfg, product_col, total_qty, calc_rows,
                   show_tiers, total_target>>

\* lines 303-306: the order total
Total ==
    /\ pc = "total"
    /\ total_target' = SumSubtotals(order_rows)
    /\ out' = [out EXCEPT !.tables = @ \cup {"order", "total"}]
    /\ pc' = "export"
    /\ UNCHANGED <<args, ret, order_df, cfg, i, product_col, total_qty, calc_rows,
                   show_tiers, order_rows>>

\* lines 309-319: the workbook for download
Export ==
    /\ pc = "export"
    /\ out' = [out EXCEPT !.exported = TRUE]
    /\ pc' = "done"
    /\ UNCHANGED <<args, ret, order_df, cfg, i, product_col, total_qty, calc_rows,
                   show_tiers, order_rows, total_target>>

Next == Start \/ CalcLine \/ Guard \/ Breakeven \/ TierLine \/ SummaryLine
        \/ Total \/ Export

Spec == Init /\ [][Next]_vars

-----------------------------------------------------------------------------
(* Key comparisons the claims speak of *)

RECURSIVE RemoveAllWhitespace(_)
RemoveAllWhitespace(s) ==
    IF s = <<>> THEN <<>>
    ELSE IF Head(s) \in Whitespace THEN RemoveAllWhitespace(Tail(s))
    ELSE <<Head(s)>> \o RemoveAllWhitespace(Tail(s))

RECURSIVE RemoveSpaces(_)
RemoveSpaces(s) ==
    IF s = <<>> THEN <<>>
    ELSE IF Head(s) = " " THEN RemoveSpaces(Tail(s))
    ELSE <<Head(s)>> \o RemoveSpaces(Tail(s))

Trim(s) ==
    LET keep == {k \in 1..Len(s) : s[k] \notin Whitespace}
    IN  IF keep = {} THEN <<>>
        ELSE SubSeq(s, Min(keep), CHOOSE k \in keep : \A j \in keep : j <= k)

-----------------------------------------------------------------------------
(* Claims about the script run (Spec) *)

RECURSIVE SumQty(_)
SumQty(order) == IF order = <<>> THEN R(0)
                 ELSE RAdd(Head(order).qty, SumQty(Tail(order)))

Lines == 1..Len(order_df)

\* total quantity of the order, fixed-cost pool, discount, target margin as a fraction
Q == SumQty(order_df)

F == cfg.fixed_cost_total

TargetM == RDiv(cfg.target_margin_pct, R(100))

\* the quote for an all-in unit cost under the target margin
Quote(allin) ==
    IF cfg.target_margin_mode = "Markup on cost" THEN RMul(allin, RAdd(R(1), TargetM))
    ELSE RDiv(allin, RSub(R(1), TargetM))

\* the sheet of line j is loaded and its key matches no row of it
KeyUnmatched(j) ==
    /\ order_df[j].sheet \in DOMAIN sheets_dict
    /\ \A k \in 1..Len(sheets_dict[order_df[j].sheet].rows) :
          LET key == sheets_dict[order_df[j].sheet].rows[k]["MODEL"]
          IN  /\ Trim(key) # Trim(order_df[j].model)
              /\ RemoveSpaces(key) # RemoveSpaces(order_df[j].model)

\* C3 as stated: in a priced order (Q > 0) every line with a resolved face price
\* and a non-negative quantity, a quantity of 0 included, shows the breakeven
\* face * discount + fixed_cost_total / Q (to 4 decimals) in the breakeven table
\* and in the order summary, and the revenue-margin quote is that breakeven
\* divided by (1 - margin/100).
C3_BreakevenAnyQuantity ==
    pc = "done" =>
        \A j \in Lines :
            (~isnan(calc_rows[j].face) /\ RLe(R(0), order_df[j].qty)) =>
                LET be == RAdd(RMul(calc_rows[j].face, cfg.factory_discount), RDiv(F, Q))
                IN  /\ calc_rows[j].breakeven = Round(be, 10000)
                    /\ order_rows[j].breakeven = Round(be, 10000)
                    /\ cfg.target_margin_mode = "Revenue margin" =>
                          order_rows[j].price = Round(RDiv(be, RSub(R(1), TargetM)), 10000)

\* C3 for the lines with a quantity of at least 1: there the two breakevens and
\* the quote are as the claim says (face 100, discount 0.5, fixed cost 700,
\* Q = 1000, margin 25%: 50, 50.7 and 67.6).
C3_BreakevenPositiveQuantity ==
    pc = "done" =>
        \A j \in Lines :
            (~isnan(calc_rows[j].face) /\ RLe(R(1), order_df[j].qty)) =>
                LET be == RAdd(RMul(calc_rows[j].face, cfg.factory_discount), RDiv(F, Q))
                IN  /\ calc_rows[j].breakeven = Round(be, 10000)
                    /\ order_rows[j].breakeven = Round(be, 10000)
                    /\ cfg.target_margin_mode = "Revenue margin" =>
                          order_rows[j].price = Round(RDiv(be, RSub(R(1), TargetM)), 10000)
                    /\ (calc_rows[j].face = R(100) /\ F = R(700) /\ Q = R(1000)
                        /\ cfg.target_margin_mode = "Revenue margin") =>
                          /\ calc_rows[j].cost_unit = R(50)
                          /\ order_rows[j].breakeven = Frac(507, 10)
                          /\ order_rows[j].price = Frac(676, 10)

\* the scenario of C3 is reached: one line of 1000 pieces at face price 100
C3_ScenarioReached ==
    /\ pc = "done" /\ Len(order_df) = 1 /\ Q = R(1000) /\ F = R(700)
    /\ calc_rows[1].face = R(100) /\ cfg.target_margin_mode = "Revenue margin"
    /\ order_rows[1].price = Frac(676, 10)

\* the fixed cost per unit that the order summary gives line j
PerUnitInSummary(j) == RDiv(order_rows[j].share, R(order_rows[j].divisor))

\* the preview rows of line j, one per tier
TierRowsOf(j) == SubSeq(show_tiers, (j - 1) * Len(cfg.tiers) + 1, j * Len(cfg.tiers))

\* C4 as stated: the proportional allocation gives two lines of one order that
\* have different quantities different fixed costs per unit.
C4_DifferentPerUnit ==
    (pc = "done" /\ F # R(0)) =>
        \A j \in Lines, k \in Lines :
            (/\ order_df[j].qty # order_df[k].qty
             /\ RLe(R(1), order_df[j].qty) /\ RLe(R(1), order_df[k].qty))
                => PerUnitInSummary(j) # PerUnitInSummary(k)

RECURSIVE SumShares(_)
SumShares(rows) == IF rows = <<>> THEN R(0)
                   ELSE RAdd(Head(rows).share, SumShares(Tail(rows)))

\* C4 amended: each line's share of the fixed-cost pool is fixed_cost_total *
\* qty / Q, proportional to its quantity (the shares add up to the pool; no equal
\* split); per unit this is the same fixed_cost_total / Q for every line with a
\* quantity of at least 1, in the breakeven table and in the order summary, so
\* lines of different quantities get the same allocation per unit there; only
\* the tier preview, which divides the share by the tier's min_qty, gives lines
\* of different quantities different allocations per unit.
C4_ProportionalShares ==
    pc = "done" =>
        /\ \A j \in Lines :
              /\ RMul(order_rows[j].share, Q) = RMul(F, order_df[j].qty)
              /\ calc_rows[j].alloc_per_unit = RDiv(F, Q)
              /\ RLe(R(1), order_df[j].qty) => PerUnitInSummary(j) = RDiv(F, Q)
        /\ SumShares(order_rows) = F
        /\ \A j \in Lines, k \in Lines, n \in 1..Len(cfg.tiers) :
              (order_df[j].qty # order_df[k].qty /\ F # R(0)) =>
                  /\ TierRowsOf(j)[n].divisor = TierRowsOf(k)[n].divisor
                  /\ RDiv(TierRowsOf(j)[n].share, R(TierRowsOf(j)[n].divisor))
                       # RDiv(TierRowsOf(k)[n].share, R(TierRowsOf(k)[n].divisor))

\* C4 witness: a priced order of two lines with the quantities 1 and 1000 and a
\* fixed cost of 700: both get 700/1001 per unit in the order summary
C4_Witness ==
    /\ pc = "done" /\ Len(order_df) = 2 /\ F = R(700)
    /\ order_df[1].qty = R(1) /\ order_df[2].qty = R(1000)
    /\ PerUnitInSummary(1) = Frac(700, 1001) /\ PerUnitInSummary(2) = Frac(700, 1001)

\* the order with the key of line u replaced by a key of its sheet
Resolvable(u) == [order_df EXCEPT ![u].model = <<"4", "-", "0", "1">>]

\* the binding of product_col before row k of an order
RECURSIVE PColBefore(_, _)
PColBefore(order, k) ==
    IF k = 1 THEN "unbound"
    ELSE ProductColAfter(order[k - 1], PColBefore(order, k - 1))

\* the rows that a run on the given order shows for its line j
CalcRowFor(order, j) ==
    WithBreakeven(CalcRow(order[j], j, ProductColAfter(order[j], PColBefore(order, j)),
                          cfg.factory_discount),
                  alloc_per_unit(F, SumQty(order)))

SummaryRowFor(order, j) == SummaryRow(CalcRowFor(order, j), cfg, SumQty(order))

TierRowsFor(order, j) ==
    [n \in 1..Len(cfg.tiers) |->
        TierRow(CalcRowFor(order, j), cfg.tiers[n], cfg, SumQty(order))]

\* the order total as the claim states it: over the lines with a resolved price
RECURSIVE TotalOverResolved(_)
TotalOverResolved(j) ==
    IF j = 0 THEN R(0)
    ELSE RAdd(TotalOverResolved(j - 1),
              IF isnan(calc_rows[j].face) THEN R(0)
              ELSE Round(RMul(Quote(RAdd(RMul(calc_rows[j].face, cfg.factory_discount),
                                         PerUnitInSummary(j))),
                              order_df[j].qty), 100))

\* C5: in a priced order a line whose key matches no row of its sheet is still
\* emitted, with missing (not zero) face price, breakeven, quote and subtotal;
\* the order total is the sum of unit price * quantity (each to 2 decimals) over
\* the lines with a resolved price only; every other line has the fields it would
\* have if that line's key were resolved; and no run is aborted by a failed
\* lookup: a run crashes only on a first line naming no loaded sheet and stops
\* only on an empty order or a total quantity <= 0.
C5_UnmatchedKeyIsMissing ==
    /\ pc = "done" =>
          /\ Len(calc_rows) = Len(order_df) /\ Len(order_rows) = Len(order_df)
          /\ total_target = TotalOverResolved(Len(order_df))
          /\ \A u \in Lines : KeyUnmatched(u) =>
                /\ calc_rows[u].line = u /\ order_rows[u].line = u
                /\ calc_rows[u].face = NaN /\ calc_rows[u].breakeven = NaN
                /\ order_rows[u].breakeven = NaN /\ order_rows[u].price = NaN
                /\ order_rows[u].subtotal = NaN
                /\ \A j \in Lines \ {u} :
                      /\ calc_rows[j] = CalcRowFor(Resolvable(u), j)
                      /\ order_rows[j] = SummaryRowFor(Resolvable(u), j)
                      /\ TierRowsOf(j) = TierRowsFor(Resolvable(u), j)
    /\ pc = "crashed" => order_df[1].sheet \notin DOMAIN sheets_dict
    /\ pc = "stopped" => RLe(Q, R(0))
    /\ pc = "stopped_empty" => order_df = <<>>

\* C5 witness: a priced order of a resolved line and a line with an unmatched
\* key; the total is the resolved line's subtotal, and not zero
C5_Witness ==
    /\ pc = "done" /\ Len(order_df) = 2 /\ KeyUnmatched(2) /\ ~KeyUnmatched(1)
    /\ order_df[2].qty = R(1) /\ order_df[1].qty = R(1000)
    /\ order_rows[2].subtotal = NaN
    /\ total_target = order_rows[1].subtotal /\ total_target # R(0)

\* C6 as stated: a run on an order (of at least one line) whose quantities sum
\* to 0 warns and halts before any fixed-cost allocation, any call of
\* price_with_margin, the order total and the export; it never divides by the
\* total quantity and it does not crash.
C6_ZeroTotalHalts ==
    (order_df # <<>> /\ Q = R(0)) =>
        /\ pc # "crashed"
        /\ pc \in {"start", "calc", "guard", "stopped"}
        /\ out.divisions = 0 /\ out.pwm_calls = 0 /\ ~out.exported
        /\ out.tables \subseteq {"cost"}
        /\ pc = "stopped" => out.warning

\* C6 where every line names a loaded sheet: such a run warns and halts as the
\* claim says
C6_ZeroTotalHaltsLoadedSheets ==
    (order_df # <<>> /\ Q = R(0)
     /\ \A j \in Lines : order_df[j].sheet \in DOMAIN sheets_dict) =>
        /\ pc \in {"start", "calc", "guard", "stopped"}
        /\ out.divisions = 0 /\ out.pwm_calls = 0 /\ ~out.exported
        /\ out.tables \subseteq {"cost"}
        /\ pc = "stopped" => out.warning

-----------------------------------------------------------------------------
(* Claims about price_with_margin (SpecPrice) *)

OtherMode(mode) == IF mode = "Markup on cost" THEN "Revenue margin" ELSE "Markup on cost"

\* C1: for every unit_cost, fixed_cost_per_order, margin_pct, mode and qty (0 and
\* negative included) the second result of price_with_margin is
\* unit_cost + fixed_cost_per_order / max(qty, 1): the divisor is at least 1, no
\* division by zero is raised, and the other margin mode gives the same value.
C1_AllinCost ==
    pc = "returned" =>
        LET divisor == IF args.qty[1] >= args.qty[2] THEN args.qty ELSE R(1)
        IN  /\ RLe(R(1), divisor)
            /\ ret[2] # ZeroDivisionError
            /\ RMul(RSub(ret[2], args.unit_cost), divisor) = args.fixed_cost_per_order
            /\ price_with_margin(args.unit_cost, args.fixed_cost_per_order, args.qty,
                                 args.margin_pct, OtherMode(args.margin_mode))[2] = ret[2]

\* C1 witness: the call has returned for qty = 0 with a positive fixed cost
C1_Witness ==
    /\ pc = "returned" /\ args.qty = R(0) /\ args.fixed_cost_per_order = R(700)
    /\ ret[2] = RAdd(args.unit_cost, R(700))

\* C2: in revenue-margin mode the unit price is missing exactly when
\* margin_pct >= 100, the all-in cost is defined all the same, and for
\* margin_pct < 100 and qty >= 1, unit_price * (1 - margin_pct/100) = unit_allin_cost.
C2_RevenueMargin ==
    (pc = "returned" /\ args.margin_mode = "Revenue margin") =>
        /\ isnan(ret[1]) <=> RLe(R(100), args.margin_pct)
        /\ ~isnan(ret[2]) /\ ret[2] # ZeroDivisionError
        /\ (~RLe(R(100), args.margin_pct) /\ RLe(R(1), args.qty)) =>
              RMul(ret[1], RSub(R(1), RDiv(args.margin_pct, R(100)))) = ret[2]

\* C2 witness: a revenue-margin call with margin 25%, qty >= 1 and a fixed cost
\* of 700 that returned a price
C2_Witness ==
    /\ pc = "returned" /\ args.margin_mode = "Revenue margin"
    /\ args.margin_pct = R(25) /\ RLe(R(1), args.qty) /\ ~isnan(ret[1])
    /\ args.fixed_cost_per_order = R(700)

-----------------------------------------------------------------------------
(* Claims about get_price (SpecLookup) *)

LookupRows == args.sheets_dict[args.sheet_name].rows

KeyOf(k) == LookupRows[k]["MODEL"]

\* the two keys differ only in whitespace
SameUpToWhitespace(a, b) == RemoveAllWhitespace(a) = RemoveAllWhitespace(b)

\* the two keys differ only in space characters, or only in whitespace at the edges
SameUpToSpaces(a, b) == RemoveSpaces(a) = RemoveSpaces(b) \/ Trim(a) = Trim(b)

\* row k is the only row whose key is the lookup key up to whitespace
OnlyCandidate(k) ==
    \A j \in 1..Len(LookupRows) :
        SameUpToWhitespace(KeyOf(j), args.model_code) => j = k

\* C7 as stated: whenever a row key and the lookup key differ only in whitespace
\* (spaces, tabs, at the edges or inside), get_price finds that row and returns
\* its value in the requested column.
C7_AnyWhitespace ==
    (pc = "returned" /\ args.product_col = "P") =>
        \A k \in 1..Len(LookupRows) :
            (SameUpToWhitespace(KeyOf(k), args.model_code) /\ OnlyCandidate(k))
                => ret = LookupRows[k]["P"]

\* C7 amended: whenever a row key and the lookup key are equal after removing
\* every space character, or equal after trimming the whitespace at the edges,
\* get_price matches a row so related to the lookup key and returns its value in
\* the requested column; it is that very row when no other row's key equals the
\* lookup key up to whitespace.
C7_SpacesOnly ==
    (pc = "returned" /\ args.product_col = "P") =>
        \A k \in 1..Len(LookupRows) :
            SameUpToSpaces(KeyOf(k), args.model_code) =>
                /\ \E j \in 1..Len(LookupRows) :
                      /\ SameUpToSpaces(KeyOf(j), args.model_code)
                      /\ ret = LookupRows[j]["P"]
                /\ OnlyCandidate(k) => ret = LookupRows[k]["P"]

\* C7 witness: the lookup key has an interior space the row key lacks, no row
\* matches exactly, and the row's value was returned
C7_Witness ==
    /\ pc = "returned" /\ args.product_col = "P"
    /\ args.model_code = <<"A", " ", "A">>
    /\ Len(LookupRows) = 2 /\ KeyOf(2) = <<"A", "A">> /\ KeyOf(1) = <<"A">>
    /\ ret = R(20)

ColumnExists == InColumns(args.product_col, args.sheets_dict[args.sheet_name])

SomeRowMatches ==
    \E k \in 1..Len(LookupRows) :
        \/ Trim(KeyOf(k)) = Trim(args.model_code)
        \/ RemoveSpaces(KeyOf(k)) = RemoveSpaces(args.model_code)

\* C9: get_price never raises for a loaded sheet; it returns missing when the
\* column does not exist (absent name or no column at all) or when no row matches
\* under either strategy, and a cell value only when a row matches and the column
\* exists.
C9_NeverRaises ==
    pc = "returned" =>
        /\ ret # KeyError
        /\ (~ColumnExists \/ ~SomeRowMatches) => ret = NaN
        /\ (ColumnExists /\ SomeRowMatches) =>
              \E k \in 1..Len(LookupRows) : ret = LookupRows[k][args.product_col]

\* C9 witness: a row matches but the requested column is absent, and missing came back
C9_Witness ==
    /\ pc = "returned" /\ SomeRowMatches /\ ~ColumnExists
    /\ args.product_col = "Z" /\ ret = NaN

TrimmedEqual == {k \in 1..Len(LookupRows) : Trim(KeyOf(k)) = Trim(args.model_code)}

SpaceFreeEqual ==
    {k \in 1..Len(LookupRows) : RemoveSpaces(KeyOf(k)) = RemoveSpaces(args.model_code)}

\* C10: the exact trimmed-key match is tried first and the space-stripped fallback
\* only when no row matches exactly; the first exact row in sheet order wins even
\* when an earlier row matches after whitespace removal only, otherwise the first
\* fallback row in sheet order; duplicates are never merged.
C10_ExactFirst ==
    (pc = "returned" /\ args.product_col = "P") =>
        IF TrimmedEqual # {} THEN ret = LookupRows[Min(TrimmedEqual)]["P"]
        ELSE IF SpaceFreeEqual # {} THEN ret = LookupRows[Min(SpaceFreeEqual)]["P"]
        ELSE ret = NaN

\* C10 witness: row 1 matches only after space removal, row 2 matches exactly,
\* and row 2's value was returned
C10_Witness ==
    /\ pc = "returned" /\ args.product_col = "P" /\ Len(LookupRows) = 2
    /\ 1 \notin TrimmedEqual /\ 1 \in SpaceFreeEqual /\ 2 \in TrimmedEqual
    /\ ret = R(20)

-----------------------------------------------------------------------------
(* Claims about coerce_numeric (SpecCoerce) *)

Letters == {"R"}

NumericOnly(ch) == ch \in Digits \/ ch = "." \/ ch = "-"

\* what is left of x without the characters that are no digit, '.' or '-'
Kept(x) == SelectSeq(x, NumericOnly)

AllDigits(s) == \A k \in 1..Len(s) : s[k] \in Digits

\* s is a decimal literal: an optional '-', then digits around at most one '.'
IsLiteral(s) ==
    \E sign \in {<<>>, <<"-">>} :
        \E a \in 0..Len(s), b \in 0..Len(s) :
            /\ Len(sign) + a + b <= Len(s)
            /\ SubSeq(s, 1, Len(sign)) = sign
            /\ AllDigits(SubSeq(s, Len(sign) + 1, Len(sign) + a))
            /\ AllDigits(SubSeq(s, Len(s) - b + 1, Len(s)))
            /\ a + b >= 1
            /\ \/ Len(sign) + a + b = Len(s) /\ b = 0
               \/ Len(sign) + a + b + 1 = Len(s) /\ s[Len(sign) + a + 1] = "."

\* the value of a decimal literal: integer part plus fraction, with the sign
LiteralValue(s) ==
    LET neg  == Head(s) = "-"
        body == IF neg THEN Tail(s) ELSE s
        dot  == {k \in 1..Len(body) : body[k] = "."}
        ip   == IF dot = {} THEN body ELSE SubSeq(body, 1, Min(dot) - 1)
        fp   == IF dot = {} THEN <<>> ELSE SubSeq(body, Min(dot) + 1, Len(body))
        mag  == RAdd(R(ToInt(ip)), Frac(ToInt(fp), Pow10(Len(fp))))
    IN  IF neg THEN RSub(R(0), mag) ELSE mag

HasLetter(x) == \E k \in 1..Len(x) : x[k] \in Letters

HasDigit(x) == \E k \in 1..Len(x) : x[k] \in Digits

\* C8 as stated, second half: a string that is not numeric, such as letters mixed
\* with digits (a model code), is coerced to missing.
C8_LettersGiveMissing ==
    (pc = "returned" /\ HasLetter(args) /\ HasDigit(args) /\ Head(args) \in Letters)
        => ret = NaN

\* C8 amended: coerce_numeric never raises; it drops commas and every character
\* that is no digit, '.' or '-' and returns the value of the rest when the rest is
\* a decimal literal, else missing.  So thousands separators and non-numeric
\* characters around a number are ignored, a string without a digit gives
\* missing, and letters mixed with digits give the number the digits spell.
C8_DigitsDecide ==
    pc = "returned" =>
        /\ ret # ValueError
        /\ IF IsLiteral(Kept(args)) THEN ret = LiteralValue(Kept(args)) ELSE ret = NaN
        /\ ~HasDigit(args) => ret = NaN

\* C8 witness: "1,5R" (thousands separator, trailing letter) came back as 15
C8_Witness ==
    /\ pc = "returned" /\ args = <<"1", ",", "5", "R">> /\ ret = R(15)

=============================================================================
